---- MODULE Spec2Model ----
(***************************************************************************)
(* Model of the bill labeling app.                                         *)
(*   src/app_mysql.py   annotator sessions, relational (MySQL) variant     *)
(*   src/view_data.py   admin page with delete-by-id                       *)
(*   src/init_mysql.py  schema and load of the bills and labels tables     *)
(*   src/app.py         annotator sessions, spreadsheet variant            *)
(*                                                                         *)
(* Every session is a Streamlit session: a private session_state and a     *)
(* script that is run from the top on every interaction.  Sessions share   *)
(* nothing but the store, so one step of the model is the part of a script *)
(* run between two accesses of the store.                                  *)
(*                                                                         *)
(*   Spec       three annotator sessions on the labels table               *)
(*   LiveSpec   the same sessions pressing on, no failure, no delete       *)
(*   AdminSpec  the admin page next to two annotator sessions              *)
(*   PoolSpec   get_filtered_pool on every labels table                    *)
(*   SheetSpec  three annotator sessions on the response sheet             *)
(***************************************************************************)
EXTENDS Integers, Sequences, FiniteSets, TLC

\* ------------------------------------------------------------------ bounds

\* Cap on the AUTO_INCREMENT id of the labels table: no insert past it.
MaxLabels == 3

\* The ids the admin types into the delete form are 1..MaxDeleteId.
MaxDeleteId == 3

\* Cap on the rows of the response sheet of app.py: no append past it.
MaxSheetRows == 3

\* Rows of the labels tables that the pool is computed on in PoolSpec: enough
\* for two items with two labels each.
MaxSnapshotRows == 4

\* The open annotator sessions (browser tabs).
Sessions == {1, 2, 3}

\* The annotator ids in use.
Users == {"alice", "bob"}

\* Who sits at each session: alice has two tabs open, bob one.
Visitor == (1 :> "alice") @@ (2 :> "alice") @@ (3 :> "bob")

\* Absent key of session_state (no current_row).
None == "None"

\* ------------------------------------------------------------ the bills table

\* A missing cell of the data frame (pandas NaN): not a text.  Texts are
\* sequences of characters.
NaN == <<"NaN">>

\* pd.isna
isna(v) == v = NaN

\* str.strip(): drop leading and trailing blanks.
RECURSIVE StripLeft(_)
StripLeft(t) ==
  IF t # <<>> /\ Head(t) = " " THEN StripLeft(Tail(t)) ELSE t

RECURSIVE StripRight(_)
StripRight(t) ==
  IF t # <<>> /\ t[Len(t)] = " " THEN StripRight(SubSeq(t, 1, Len(t) - 1)) ELSE t

Strip(t) == StripRight(StripLeft(t))

\* Rows of bill_summaries_text.csv: the text is in Summary, or in formats.
csv ==
  { [unique_number |-> "A", Summary |-> <<"x">>,  formats |-> NaN],
    [unique_number |-> "B", Summary |-> NaN,      formats |-> <<" ", "x", " ", "y">>],
    [unique_number |-> "E", Summary |-> <<" ">>,  formats |-> NaN] }

\* compute_summary_text: Summary, or formats when Summary is missing or
\* blank, stripped; the empty text when both are missing.
compute_summary_text(row) ==
  LET s == IF isna(row.Summary) \/ Strip(row.Summary) = <<>>
           THEN row.formats ELSE row.Summary
  IN  IF isna(s) THEN <<>> ELSE Strip(s)

\* Rows of the bills table as init_mysql.py loads them: unique_number is the
\* primary key, summary_text the text compute_summary_text gives.
bills ==
  { [unique_number |-> row.unique_number,
     summary_text  |-> compute_summary_text(row)] : row \in csv }

BillIds == { b.unique_number : b \in bills }

\* Mutant of load_all_bills: rows with a blank text are kept.
load_all_bills_unfiltered == bills

\* load_all_bills: the rows of bills whose summary_text is neither missing
\* nor blank.
load_all_bills ==
  { b \in bills : ~isna(b.summary_text) /\ Strip(b.summary_text) # <<>> }

\* The unique_number column of the data frame load_all_bills returns.
summaries == { b.unique_number : b \in load_all_bills }

\* ------------------------------------------------------------------- state

VARIABLES
  labels,            \* the labels table: a set of rows
  nextId,            \* the next AUTO_INCREMENT id of the labels table
  password_correct,  \* session_state["password_correct"]: "absent", "true", "false"
  password,          \* session_state["password"], the typed secret ("" when absent)
  user_id,           \* session_state.user_id ("" until locked)
  user_id_locked,    \* session_state.user_id_locked
  current_row,       \* session_state.current_row: a unique_number, or None
  pc,                \* where the session's script stands
  current_count,     \* the submit handler's local current_count
  msg,               \* the last message the script showed
  admin_password_correct,  \* view_data.py, session_state["admin_password_correct"]
  admin_password,    \* view_data.py, session_state["admin_password"]
  id_to_delete,      \* view_data.py: the number in the delete form (0: none)
  admin_msg,         \* the last message of the admin page's delete form
  sheet,             \* app.py: the rows of the response sheet, in order
  hashes_cache       \* app.py: the st.cache_data entry of load_existing_hashes

vars == << labels, nextId, password_correct, password, user_id, user_id_locked,
           current_row, pc, current_count, msg,
           admin_password_correct, admin_password, id_to_delete, admin_msg,
           sheet, hashes_cache >>

\* The session_state and the output of the admin page (view_data.py).
adminVars == << admin_password_correct, admin_password, id_to_delete, admin_msg >>

\* The response sheet of app.py and the cache in front of it.
sheetVars == << sheet, hashes_cache >>

sessionVars == << password_correct, password, user_id, user_id_locked,
                  current_row, pc, current_count, msg >>

\* ------------------------------------------------- reading the labels table

\* The rows of table t for item uid.
RowsOf(t, uid) == { r \in t : r.unique_number = uid }

\* load_existing_label_info: the two dicts (counts, user_map) built from
\* SELECT unique_number, user_id FROM labels.  A dict is a function whose
\* domain are the keys: only items with at least one row are keys.
load_existing_label_info(t) ==
  LET keys == { r.unique_number : r \in t }
  IN  [ counts   |-> [ k \in keys |-> Cardinality(RowsOf(t, k)) ],
        user_map |-> [ k \in keys |-> { r.user_id : r \in RowsOf(t, k) } ] ]

\* dict.get(key, default)
Get(d, k, default) == IF k \in DOMAIN d THEN d[k] ELSE default

\* Mutant of need_second_mask: the requester's own label is not looked at.
need_second_mask_any_user(current_user_id, counts, user_map, uid) ==
  Get(counts, uid, 0) = 1

need_second_mask(current_user_id, counts, user_map, uid) ==
  Get(counts, uid, 0) = 1 /\ current_user_id \notin Get(user_map, uid, {})

\* Mutant of need_first_mask: every item below the ceiling needs a first label.
need_first_mask_below_two(counts, uid) ==
  Get(counts, uid, 0) < 2

need_first_mask(counts, uid) ==
  Get(counts, uid, 0) = 0

\* Mutant of get_filtered_pool: the two tiers are mixed.
get_filtered_pool_mixed(current_user_id, counts, user_map, all_summaries) ==
  { uid \in all_summaries :
      \/ need_second_mask(current_user_id, counts, user_map, uid)
      \/ need_first_mask(counts, uid) }

\* get_filtered_pool: the items that need a second label by someone else if
\* there are any, else the items that have no label.
get_filtered_pool(current_user_id, counts, user_map, all_summaries) ==
  LET need_second == { uid \in all_summaries :
                         need_second_mask(current_user_id, counts, user_map, uid) }
      need_first  == { uid \in all_summaries : need_first_mask(counts, uid) }
  IN  IF need_second # {} THEN need_second ELSE need_first

\* The pool of annotator u as the script computes it from table t.
PoolOf(u, t) ==
  LET info == load_existing_label_info(t)
  IN  get_filtered_pool(u, info.counts, info.user_map, summaries)

\* ------------------------------------------------------------ the script

\* The configured st.secrets["APP_PASSWORD"], and what a visitor may type.
APP_PASSWORD == "secret"
Typed == {"secret", "wrong"}

Set(f, s, v) == [f EXCEPT ![s] = v]

\* Mutant of at_capacity: the ceiling is compared with > instead of >=.
at_capacity_off_by_one(counts, unique_id) == Get(counts, unique_id, 0) > 2

\* Mutant of at_capacity: the ceiling is 1 label.
at_capacity_at_one(counts, unique_id) == Get(counts, unique_id, 0) >= 1

\* Re-check of line 202: the item already has its two labels.
at_capacity(counts, unique_id) == Get(counts, unique_id, 0) >= 2

\* Mutant of already_labeled: the user map is looked up with the user id.
already_labeled_swapped(uid, user_map, unique_id) == unique_id \in Get(user_map, uid, {})

\* Re-check of line 207: this annotator already labeled the item.
already_labeled(uid, user_map, unique_id) == uid \in Get(user_map, unique_id, {})

\* Line 223.
next_round(count) == count + 1

\* Mutant of NewRow: the user id and the item id change places in the
\* parameters of the INSERT.
NewRow_swapped(id, uid, unique_id, round) ==
  [id |-> id, unique_number |-> uid, user_id |-> unique_id, label_round |-> round]

\* Mutant of NewRow: the display text of the bill is stored as its key.
NewRow_display_as_key(id, uid, unique_id, round) ==
  [id |-> id, unique_number |-> "legislation_display", user_id |-> uid,
   label_round |-> round]

\* The row that the INSERT of lines 226-248 adds; id is the AUTO_INCREMENT key.
NewRow(id, uid, unique_id, round) ==
  [id |-> id, unique_number |-> unique_id, user_id |-> uid, label_round |-> round]

Init ==
  /\ labels = {}
  /\ nextId = 1
  /\ password_correct = [s \in Sessions |-> "absent"]
  /\ password = [s \in Sessions |-> ""]
  /\ user_id = [s \in Sessions |-> ""]
  /\ user_id_locked = [s \in Sessions |-> FALSE]
  /\ current_row = [s \in Sessions |-> None]
  /\ pc = [s \in Sessions |-> "password"]
  /\ current_count = [s \in Sessions |-> 0]
  /\ msg = [s \in Sessions |-> ""]
  /\ admin_password_correct = "absent"
  /\ admin_password = ""
  /\ id_to_delete = 0
  /\ admin_msg = ""
  /\ sheet = << >>
  /\ hashes_cache = << >>

\* Mutant of ScriptTop: the row is drawn from all summaries, not from the
\* filtered pool.
ScriptTop_draw_any(s, uid, cur, submitted) ==
  LET filtered == PoolOf(uid, labels)
  IN  IF filtered = {}
      THEN /\ pc' = Set(pc, s, "done")
           /\ msg' = Set(msg, s, "PoolExhausted")
           /\ current_row' = Set(current_row, s, cur)
      ELSE /\ \E row \in (IF cur = None THEN summaries ELSE {cur}) :
                current_row' = Set(current_row, s, row)
           /\ pc' = Set(pc, s, IF submitted THEN "submitted" ELSE "form")
           /\ msg' = Set(msg, s, "")

\* Mutant of ScriptTop: the drawn row is kept in one module-level variable
\* that all sessions share instead of in the session's own session_state.
ScriptTop_shared_row(s, uid, cur, submitted) ==
  LET filtered == PoolOf(uid, labels)
  IN  IF filtered = {}
      THEN /\ pc' = Set(pc, s, "done")
           /\ msg' = Set(msg, s, "PoolExhausted")
           /\ current_row' = Set(current_row, s, cur)
      ELSE /\ \E row \in (IF cur = None THEN filtered ELSE {cur}) :
                current_row' = [t \in Sessions |-> row]
           /\ pc' = Set(pc, s, IF submitted THEN "submitted" ELSE "form")
           /\ msg' = Set(msg, s, "")

\* Lines 136-161 of a script run of session s whose session_state holds user
\* id uid and current_row cur: read the labels, compute the pool, stop with
\* the completion message if it is empty, draw a row if there is none.  The
\* run goes on to the submit handler when the submit button was pressed.
ScriptTop(s, uid, cur, submitted) ==
  LET filtered == PoolOf(uid, labels)
  IN  IF filtered = {}
      THEN /\ pc' = Set(pc, s, "done")
           /\ msg' = Set(msg, s, "PoolExhausted")
           /\ current_row' = Set(current_row, s, cur)
      ELSE /\ \E row \in (IF cur = None THEN filtered ELSE {cur}) :
                current_row' = Set(current_row, s, row)
           /\ pc' = Set(pc, s, IF submitted THEN "submitted" ELSE "form")
           /\ msg' = Set(msg, s, "")

\* Mutant of EnterPassword: the gate of line 85 lets a session through once
\* password_correct is set, whatever its value.
EnterPassword_open(s, typed) ==
  /\ pc[s] = "password"
  /\ IF typed = APP_PASSWORD
     THEN /\ password_correct' = Set(password_correct, s, "true")
          /\ password' = Set(password, s, "")
     ELSE /\ password_correct' = Set(password_correct, s, "false")
          /\ password' = Set(password, s, typed)
  /\ pc' = Set(pc, s, "user_id")
  /\ UNCHANGED << labels, nextId, user_id, user_id_locked, current_row,
                  current_count, msg >>
  /\ UNCHANGED << adminVars, sheetVars >>

\* check_password.password_entered, then the run it starts: the gate of line
\* 85 and, for a new session, the user id prompt of lines 126-134.
EnterPassword(s, typed) ==
  /\ pc[s] = "password"
  /\ IF typed = APP_PASSWORD
     THEN /\ password_correct' = Set(password_correct, s, "true")
          /\ password' = Set(password, s, "")
          /\ pc' = Set(pc, s, "user_id")
     ELSE /\ password_correct' = Set(password_correct, s, "false")
          /\ password' = Set(password, s, typed)
          /\ pc' = Set(pc, s, "password")
  /\ UNCHANGED << labels, nextId, user_id, user_id_locked, current_row,
                  current_count, msg >>
  /\ UNCHANGED << adminVars, sheetVars >>

\* Mutant of LockUserId: the id is locked without the test of line 107.
LockUserId_unchecked(s, typed) ==
  /\ pc[s] = "user_id"
  /\ user_id' = Set(user_id, s, typed)
  /\ user_id_locked' = Set(user_id_locked, s, TRUE)
  /\ ScriptTop(s, typed, None, FALSE)
  /\ UNCHANGED << labels, nextId, password_correct, password, current_count >>
  /\ UNCHANGED << adminVars, sheetVars >>

\* lock_user_id with the typed user id, then the run it starts.
LockUserId(s, typed) ==
  /\ pc[s] = "user_id"
  /\ IF typed # ""
     THEN /\ user_id' = Set(user_id, s, typed)
          /\ user_id_locked' = Set(user_id_locked, s, TRUE)
          /\ ScriptTop(s, typed, None, FALSE)
     ELSE UNCHANGED << user_id, user_id_locked, current_row, pc, msg >>
  /\ UNCHANGED << labels, nextId, password_correct, password, current_count >>
  /\ UNCHANGED << adminVars, sheetVars >>

\* The run that st.rerun() of lines 205, 210 and 263 starts.
Rerun(s) ==
  /\ pc[s] = "rerun"
  /\ ScriptTop(s, user_id[s], current_row[s], FALSE)
  /\ UNCHANGED << labels, nextId, password_correct, password, user_id,
                  user_id_locked, current_count >>
  /\ UNCHANGED << adminVars, sheetVars >>

\* Mutant of UserRerun: the user id field is not disabled after the lock and
\* the run takes the id typed into it.
UserRerun_retyped(s) ==
  /\ pc[s] \in {"form", "done"}
  /\ \E typed \in Users :
       /\ user_id' = Set(user_id, s, typed)
       /\ ScriptTop(s, typed, current_row[s], FALSE)
  /\ UNCHANGED << labels, nextId, password_correct, password,
                  user_id_locked, current_count >>
  /\ UNCHANGED << adminVars, sheetVars >>

\* A run the user starts from a finished page without pressing submit.
UserRerun(s) ==
  /\ pc[s] \in {"form", "done"}
  /\ ScriptTop(s, user_id[s], current_row[s], FALSE)
  /\ UNCHANGED << labels, nextId, password_correct, password, user_id,
                  user_id_locked, current_count >>
  /\ UNCHANGED << adminVars, sheetVars >>

\* The submit button of the form: the run from the top down to line 199.
SubmitPressed(s) ==
  /\ pc[s] = "form"
  /\ ScriptTop(s, user_id[s], current_row[s], TRUE)
  /\ UNCHANGED << labels, nextId, password_correct, password, user_id,
                  user_id_locked, current_count >>
  /\ UNCHANGED << adminVars, sheetVars >>

\* Mutant of SubmitRecheck: the handler goes on to the insert without the
\* tests of lines 202 and 207.
SubmitRecheck_none(s) ==
  /\ pc[s] = "submitted"
  /\ pc' = Set(pc, s, "checked")
  /\ UNCHANGED << msg, current_row >>
  /\ UNCHANGED << labels, nextId, password_correct, password, user_id,
                  user_id_locked, current_count >>
  /\ UNCHANGED << adminVars, sheetVars >>

\* Lines 199-210: read the labels again and re-check the current item.
SubmitRecheck(s) ==
  /\ pc[s] = "submitted"
  /\ LET info == load_existing_label_info(labels)
         unique_id == current_row[s]
     IN  IF at_capacity(info.counts, unique_id)
         THEN /\ msg' = Set(msg, s, "AlreadyAtCapacity")
              /\ current_row' = Set(current_row, s, None)
              /\ pc' = Set(pc, s, "rerun")
         ELSE IF already_labeled(user_id[s], info.user_map, unique_id)
         THEN /\ msg' = Set(msg, s, "DuplicateAnnotator")
              /\ current_row' = Set(current_row, s, None)
              /\ pc' = Set(pc, s, "rerun")
         ELSE /\ pc' = Set(pc, s, "checked")
              /\ UNCHANGED << msg, current_row >>
  /\ UNCHANGED << labels, nextId, password_correct, password, user_id,
                  user_id_locked, current_count >>
  /\ UNCHANGED << adminVars, sheetVars >>

\* Lines 220-223: SELECT COUNT(*) FROM labels WHERE unique_number = :uid.
CountQuery(s) ==
  /\ pc[s] = "checked"
  /\ current_count' = Set(current_count, s, Cardinality(RowsOf(labels, current_row[s])))
  /\ pc' = Set(pc, s, "counted")
  /\ UNCHANGED << labels, nextId, password_correct, password, user_id,
                  user_id_locked, current_row, msg >>
  /\ UNCHANGED << adminVars, sheetVars >>

\* Lines 226-251: the INSERT and its commit.
InsertRow(s) ==
  /\ pc[s] = "counted"
  /\ labels' = labels \cup
       { NewRow(nextId, user_id[s], current_row[s], next_round(current_count[s])) }
  /\ nextId' = nextId + 1
  /\ pc' = Set(pc, s, "inserted")
  /\ msg' = Set(msg, s, "Saved")
  /\ current_count' = Set(current_count, s, 0)
  /\ UNCHANGED << password_correct, password, user_id, user_id_locked, current_row >>
  /\ UNCHANGED << adminVars, sheetVars >>

\* InsertRow while the table's AUTO_INCREMENT id is within the bound.
InsertCommit(s) ==
  /\ nextId <= MaxLabels
  /\ InsertRow(s)

\* Mutant of PostInsert: the next pool is computed from the labels read
\* before the insert (line 200) instead of the fresh read of line 254.
PostInsert_stale(s) ==
  /\ pc[s] = "inserted"
  /\ LET before == { r \in labels : ~(r.unique_number = current_row[s]
                                       /\ r.user_id = user_id[s]) }
         next_pool == PoolOf(user_id[s], before)
     IN  IF next_pool = {}
         THEN /\ msg' = Set(msg, s, "PoolExhausted")
              /\ current_row' = Set(current_row, s, None)
              /\ pc' = Set(pc, s, "done")
         ELSE /\ \E row \in next_pool : current_row' = Set(current_row, s, row)
              /\ pc' = Set(pc, s, "rerun")
              /\ UNCHANGED msg
  /\ UNCHANGED << labels, nextId, password_correct, password, user_id,
                  user_id_locked, current_count >>
  /\ UNCHANGED << adminVars, sheetVars >>

\* Lines 254-263: read the labels once more and draw the next item.
PostInsert(s) ==
  /\ pc[s] = "inserted"
  /\ LET next_pool == PoolOf(user_id[s], labels)
     IN  IF next_pool = {}
         THEN /\ msg' = Set(msg, s, "PoolExhausted")
              /\ current_row' = Set(current_row, s, None)
              /\ pc' = Set(pc, s, "done")
         ELSE /\ \E row \in next_pool : current_row' = Set(current_row, s, row)
              /\ pc' = Set(pc, s, "rerun")
              /\ UNCHANGED msg
  /\ UNCHANGED << labels, nextId, password_correct, password, user_id,
                  user_id_locked, current_count >>
  /\ UNCHANGED << adminVars, sheetVars >>

\* Lines 265-267: the count query, the insert or the commit raised; the
\* transaction is rolled back and the form stays.
StoreFailure(s) ==
  /\ pc[s] \in {"checked", "counted"}
  /\ pc' = Set(pc, s, "form")
  /\ msg' = Set(msg, s, "Error")
  /\ current_count' = Set(current_count, s, 0)
  /\ UNCHANGED << labels, nextId, password_correct, password, user_id,
                  user_id_locked, current_row >>
  /\ UNCHANGED << adminVars, sheetVars >>

\* Lines 249-267 on the autocommit connection of line 39: the INSERT is in
\* the table as soon as it is executed, so when s.commit() or the read of
\* line 254 raises, the handler of lines 265-267 reports a failure with the
\* row stored.
CommitFailure(s) ==
  /\ pc[s] = "inserted"
  /\ pc' = Set(pc, s, "form")
  /\ msg' = Set(msg, s, "Error")
  /\ UNCHANGED << labels, nextId, password_correct, password, user_id,
                  user_id_locked, current_row, current_count >>
  /\ UNCHANGED << adminVars, sheetVars >>

Next ==
  \/ \E s \in Sessions, typed \in Typed : EnterPassword(s, typed)
  \/ \E s \in Sessions : \E typed \in {Visitor[s], ""} : LockUserId(s, typed)
  \/ \E s \in Sessions : Rerun(s)
  \/ \E s \in Sessions : UserRerun(s)
  \/ \E s \in Sessions : SubmitPressed(s)
  \/ \E s \in Sessions : SubmitRecheck(s)
  \/ \E s \in Sessions : CountQuery(s)
  \/ \E s \in Sessions : InsertCommit(s)
  \/ \E s \in Sessions : PostInsert(s)
  \/ \E s \in Sessions : StoreFailure(s)
  \/ \E s \in Sessions : CommitFailure(s)

Spec == Init /\ [][Next]_vars

\* ------------------------------------- annotators that keep on labeling

\* The next step of session s when its annotator goes on: the right
\* password, the annotator's id, the pending run, a press of submit and the
\* steps of the submit handler.
Continue(s) ==
  \/ EnterPassword(s, APP_PASSWORD)
  \/ LockUserId(s, Visitor[s])
  \/ Rerun(s)
  \/ SubmitPressed(s)
  \/ SubmitRecheck(s)
  \/ CountQuery(s)
  \/ InsertRow(s)
  \/ PostInsert(s)

\* The annotators' sessions while the store answers every statement and the
\* admin deletes nothing.  Without deletes a session inserts at most one row
\* per item, so the table stays within Cardinality(Sessions) rows per item.
LiveNext ==
  \/ \E s \in Sessions, typed \in Typed : EnterPassword(s, typed)
  \/ \E s \in Sessions : \E typed \in {Visitor[s], ""} : LockUserId(s, typed)
  \/ \E s \in Sessions : Rerun(s)
  \/ \E s \in Sessions : UserRerun(s)
  \/ \E s \in Sessions : SubmitPressed(s)
  \/ \E s \in Sessions : SubmitRecheck(s)
  \/ \E s \in Sessions : CountQuery(s)
  \/ \E s \in Sessions : InsertRow(s)
  \/ \E s \in Sessions : PostInsert(s)

\* Every session that can go on eventually does.
LiveSpec ==
  /\ Init
  /\ [][LiveNext]_vars
  /\ \A s \in Sessions : WF_vars(Continue(s))

\* ------------------------------------------- the admin page, view_data.py

\* The configured st.secrets["ADMIN_PASSWORD"].
ADMIN_PASSWORD == "admin-secret"

\* check_admin_password.password_entered, then the run it starts.
AdminEnterPassword(typed) ==
  /\ admin_password_correct # "true"
  /\ IF typed = ADMIN_PASSWORD
     THEN /\ admin_password_correct' = "true"
          /\ admin_password' = ""
     ELSE /\ admin_password_correct' = "false"
          /\ admin_password' = typed
  /\ UNCHANGED << labels, nextId, sessionVars, id_to_delete, admin_msg, sheetVars >>

\* Mutant of DeleteLabel: DELETE ... WHERE id <= :id.
DeleteLabel_UpTo(id) ==
  /\ admin_password_correct = "true"
  /\ admin_msg # "Deleted"
  /\ id_to_delete' = id
  /\ LET exists == Cardinality({ r \in labels : r.id = id })
     IN  IF exists # 0
         THEN /\ labels' = { r \in labels : r.id > id }
              /\ admin_msg' = "Deleted"
         ELSE /\ labels' = labels
              /\ admin_msg' = "NotFound"
  /\ UNCHANGED << nextId, sessionVars, admin_password_correct, admin_password,
                  sheetVars >>

\* The delete form behind the gate of line 64: DELETE FROM labels WHERE
\* id = :id and the success message when a row with that id exists, the
\* "not found" error otherwise.
DeleteLabel(id) ==
  /\ admin_password_correct = "true"
  /\ admin_msg # "Deleted"
  /\ id_to_delete' = id
  /\ LET exists == Cardinality({ r \in labels : r.id = id })
     IN  IF exists # 0
         THEN /\ labels' = { r \in labels : r.id # id }
              /\ admin_msg' = "Deleted"
         ELSE /\ labels' = labels
              /\ admin_msg' = "NotFound"
  /\ UNCHANGED << nextId, sessionVars, admin_password_correct, admin_password,
                  sheetVars >>

\* The run that st.rerun() of line 141 starts after a delete, or that the
\* Refresh button of lines 69-70 starts: the page is drawn without the
\* message of the delete form.
AdminRerun ==
  /\ admin_password_correct = "true"
  /\ admin_msg # ""
  /\ admin_msg' = ""
  /\ UNCHANGED << labels, nextId, sessionVars, admin_password_correct,
                  admin_password, id_to_delete, sheetVars >>

\* The annotator sessions that are open next to the admin page.
AdminSideSessions == {2, 3}

\* The admin page next to two annotators' sessions.
AdminNext ==
  \/ \E typed \in {ADMIN_PASSWORD, "wrong"} : AdminEnterPassword(typed)
  \/ \E id \in 1..MaxDeleteId : DeleteLabel(id)
  \/ AdminRerun
  \/ \E s \in AdminSideSessions, typed \in Typed : EnterPassword(s, typed)
  \/ \E s \in AdminSideSessions : \E typed \in {Visitor[s], ""} : LockUserId(s, typed)
  \/ \E s \in AdminSideSessions : Rerun(s)
  \/ \E s \in AdminSideSessions : UserRerun(s)
  \/ \E s \in AdminSideSessions : SubmitPressed(s)
  \/ \E s \in AdminSideSessions : SubmitRecheck(s)
  \/ \E s \in AdminSideSessions : CountQuery(s)
  \/ \E s \in AdminSideSessions : InsertCommit(s)
  \/ \E s \in AdminSideSessions : PostInsert(s)
  \/ \E s \in AdminSideSessions : StoreFailure(s)
  \/ \E s \in AdminSideSessions : CommitFailure(s)

AdminSpec == Init /\ [][AdminNext]_vars

\* ------------------------------------- the spreadsheet variant, app.py

\* Rows of the file load_summaries downloads: the rows above and one more
\* whose text differs from that of A in blanks only.
drive_csv ==
  csv \cup { [unique_number |-> "D", Summary |-> <<" ", "x">>, formats |-> NaN] }

\* hashlib.md5(t.encode("utf-8")).hexdigest() of the texts that occur.
md5(t) ==
  CASE t = << >>            -> "d41d8cd98f00b204e9800998ecf8427e"
    [] t = <<"x">>           -> "9dd4e461268c8034f5c8564e155c67a6"
    [] t = <<"x", " ", "y">> -> "c8d1ae9296335b1cfc3d0d1b47b664a7"

\* Lines 119-125: the rows with summary_text and summary_hash, without the
\* rows whose text is blank.  A row is referred to by its unique_number.
sheet_summaries ==
  LET hashed == { [unique_number |-> r.unique_number,
                   summary_text  |-> compute_summary_text(r),
                   summary_hash  |-> md5(compute_summary_text(r))] : r \in drive_csv }
  IN  { r \in hashed : ~isna(r.summary_text) /\ Strip(r.summary_text) # <<>> }

\* row["summary_hash"] of the row with unique_number uid.
HashOf(uid) ==
  md5(compute_summary_text(CHOOSE r \in drive_csv : r.unique_number = uid))

\* load_existing_hashes without its cache: the summary_hash column of the
\* sheet's records.
load_existing_hashes(sh) == { sh[i].summary_hash : i \in 1..Len(sh) }

\* What load_existing_hashes(sheet) returns under st.cache_data: its only
\* argument is excluded from the cache key (leading underscore), so the
\* first call reads the sheet and every later call returns that result.
existing_hashes ==
  IF hashes_cache = << >> THEN load_existing_hashes(sheet) ELSE hashes_cache[1]

\* Line 127.
filtered_of(existing) ==
  { r.unique_number : r \in { q \in sheet_summaries : q.summary_hash \notin existing } }

\* Mutant of new_filtered: the submitted row is left out, not its hash.
new_filtered_by_row(filtered, row) == filtered \ {row}

\* Line 207: filtered without the rows that have the submitted row's hash.
new_filtered(filtered, row) == { u \in filtered : HashOf(u) # HashOf(row) }

\* Lines 110-133 of a run of session s with typed in the user id field:
\* stop when it is blank; else take the cached hashes, filter, stop with the
\* completion message when nothing is left, draw a row if there is none.
SheetTop(s, typed, submitted) ==
  /\ user_id' = Set(user_id, s, typed)
  /\ IF typed = ""
     THEN /\ pc' = Set(pc, s, "user_id")
          /\ UNCHANGED << current_row, msg, hashes_cache >>
     ELSE LET existing == existing_hashes
              filtered == filtered_of(existing)
          IN  /\ hashes_cache' = << existing >>
              /\ IF filtered = {}
                 THEN /\ pc' = Set(pc, s, "done")
                      /\ msg' = Set(msg, s, "PoolExhausted")
                      /\ UNCHANGED current_row
                 ELSE /\ \E row \in (IF current_row[s] = None THEN filtered
                                      ELSE {current_row[s]}) :
                           current_row' = Set(current_row, s, row)
                      /\ pc' = Set(pc, s, IF submitted THEN "submitted" ELSE "form")
                      /\ msg' = Set(msg, s, "")

\* A run that the user id field (or any widget but the submit button)
\* starts.
SheetRun(s, typed) ==
  /\ pc[s] \in {"user_id", "form", "done"}
  /\ SheetTop(s, typed, FALSE)
  /\ UNCHANGED << labels, nextId, password_correct, password, user_id_locked,
                  current_count, adminVars, sheet >>

\* The submit button: the run from the top down to line 195.
SheetSubmitPressed(s) ==
  /\ pc[s] = "form"
  /\ SheetTop(s, user_id[s], TRUE)
  /\ UNCHANGED << labels, nextId, password_correct, password, user_id_locked,
                  current_count, adminVars, sheet >>

\* Lines 195-218: append the response, then draw the next row among the
\* rows of this run's filtered that have another hash.
SheetAppend(s) ==
  /\ pc[s] = "submitted"
  /\ Len(sheet) < MaxSheetRows
  /\ sheet' = Append(sheet, [user_id |-> user_id[s],
                             summary_hash |-> HashOf(current_row[s])])
  /\ LET next_rows == new_filtered(filtered_of(existing_hashes), current_row[s])
     IN  IF next_rows = {}
         THEN /\ pc' = Set(pc, s, "done")
              /\ msg' = Set(msg, s, "PoolExhausted")
              /\ UNCHANGED current_row
         ELSE /\ \E row \in next_rows : current_row' = Set(current_row, s, row)
              /\ pc' = Set(pc, s, "form")
              /\ msg' = Set(msg, s, "Saved")
  /\ UNCHANGED << labels, nextId, password_correct, password, user_id,
                  user_id_locked, current_count, adminVars, hashes_cache >>

SheetNext ==
  \/ \E s \in Sessions, typed \in Typed : EnterPassword(s, typed)
  \/ \E s \in Sessions : \E typed \in {Visitor[s], ""} : SheetRun(s, typed)
  \/ \E s \in Sessions : SheetSubmitPressed(s)
  \/ \E s \in Sessions : SheetAppend(s)

SheetSpec == Init /\ [][SheetNext]_vars

\* ------------------------------------------- the pool on any labels table

\* The labels tables the pool is computed on: every id of 1..MaxSnapshotRows
\* is absent (<<>>) or the row of any annotator for any bill.  The pool reads
\* the columns unique_number and user_id only, so label_round is left at 1.
Snapshots ==
  LET Content == { <<>> } \cup { <<u, b>> : u \in Users, b \in BillIds }
  IN  { { NewRow(id, f[id][1], f[id][2], 1) :
            id \in { i \in 1..MaxSnapshotRows : f[i] # <<>> } } :
        f \in [1..MaxSnapshotRows -> Content] }

\* Sessions that have passed both gates and are about to run the script, on
\* any labels table.
PoolInit ==
  /\ labels \in Snapshots
  /\ nextId = MaxSnapshotRows + 1
  /\ password_correct = [s \in Sessions |-> "true"]
  /\ password = [s \in Sessions |-> ""]
  /\ user_id = [s \in Sessions |-> Visitor[s]]
  /\ user_id_locked = [s \in Sessions |-> TRUE]
  /\ current_row = [s \in Sessions |-> None]
  /\ pc = [s \in Sessions |-> "rerun"]
  /\ current_count = [s \in Sessions |-> 0]
  /\ msg = [s \in Sessions |-> ""]
  /\ admin_password_correct = "absent"
  /\ admin_password = ""
  /\ id_to_delete = 0
  /\ admin_msg = ""
  /\ sheet = << >>
  /\ hashes_cache = << >>

PoolNext == \E s \in Sessions : Rerun(s)

PoolSpec == PoolInit /\ [][PoolNext]_vars

\* ------------------------------------------------------------- the claims

\* What the labels table holds for an item, read off the rows themselves.
CountOf(uid) == Cardinality({ r \in labels : r.unique_number = uid })
AnnotatorsOf(uid) == { r.user_id : r \in { q \in labels : q.unique_number = uid } }

\* Session s commits its INSERT in this step.
Inserts(s) == pc[s] = "counted" /\ pc'[s] = "inserted"

\* C1: in every reachable state no item (unique_number) has more than 2 rows
\* in the labels table.
C1_AtMostTwoLabels ==
  \A uid \in BillIds : CountOf(uid) <= 2

\* C2: in every reachable state no (item, annotator) pair occurs in more than
\* one row of the labels table.
C2_NoRepeatedAnnotator ==
  \A r1, r2 \in labels :
    (r1.unique_number = r2.unique_number /\ r1.user_id = r2.user_id) => r1 = r2

\* C3: a session that passed its re-check while another session was still to
\* insert for the same item does not commit an insert that takes the item
\* past 2 labels or repeats an annotator: it is turned away instead.
C3_RaceLoserIsRejected ==
  [][ \A s \in Sessions :
        Inserts(s) =>
          /\ CountOf(current_row[s]) < 2
          /\ user_id[s] \notin AnnotatorsOf(current_row[s]) ]_vars

\* C4: the label_round of every inserted row is the number of rows the item
\* has in the table at the moment of the insert, plus 1.
C4_RoundIsCountAtInsertPlusOne ==
  [][ \A r \in labels' \ labels :
        r.label_round = CountOf(r.unique_number) + 1 ]_vars

\* C5: every row of the labels table has label_round 1 or 2.
C5_RoundIsOneOrTwo ==
  \A r \in labels : r.label_round \in {1, 2}

\* The pool the spec describes for annotator u, read off the rows: the items
\* with one label that is not u's if there are any (tier A), else the items
\* with no label (tier B).
TierA(u) == { uid \in summaries : CountOf(uid) = 1 /\ u \notin AnnotatorsOf(uid) }
TierB == { uid \in summaries : CountOf(uid) = 0 }

\* C6: for every annotator and every labels table, get_filtered_pool returns
\* only items with fewer than 2 labels, and an item with 1 label only if the
\* requesting annotator is not the one who gave it.
C6_PoolRespectsBothLimits ==
  \A u \in Users : \A uid \in PoolOf(u, labels) :
    /\ CountOf(uid) < 2
    /\ CountOf(uid) = 1 => u \notin AnnotatorsOf(uid)

\* A session was shown an item with one label by someone else while another
\* item carries the session's own single label.
C6_Witness ==
  \E s \in Sessions :
    /\ pc[s] = "form"
    /\ CountOf(current_row[s]) = 1
    /\ \E other \in summaries :
         CountOf(other) = 1 /\ user_id[s] \in AnnotatorsOf(other)

\* C7: whenever some item has exactly 1 label, not by the requester, the pool
\* is exactly the set of such items (no item with 0 labels in it); only when
\* there is none is it exactly the set of items with 0 labels.
C7_TierAWinsEntirely ==
  \A u \in Users :
    PoolOf(u, labels) = IF TierA(u) # {} THEN TierA(u) ELSE TierB

\* Both tiers are non-empty for a session and it was shown a tier A item.
C7_Witness ==
  \E s \in Sessions :
    /\ pc[s] = "form"
    /\ current_row[s] \in TierA(user_id[s])
    /\ TierB # {}

\* C8: the pool of an annotator is empty exactly when every item has 2 or
\* more labels or has exactly 1 label, given by that annotator.
C8_EmptyPoolExactlyWhenNothingLeft ==
  \A u \in Users :
    PoolOf(u, labels) = {} <=>
      \A uid \in summaries :
        \/ CountOf(uid) >= 2
        \/ CountOf(uid) = 1 /\ AnnotatorsOf(uid) = {u}

\* A session got the completion message while an item still below 2 labels
\* carries its own label.
C8_Witness ==
  \E s \in Sessions :
    /\ pc[s] = "done"
    /\ msg[s] = "PoolExhausted"
    /\ \E uid \in summaries : CountOf(uid) = 1 /\ AnnotatorsOf(uid) = {user_id[s]}

\* Session s takes the step that follows the re-read of line 200.
Rechecks(s) == pc[s] = "submitted" /\ pc'[s] # "submitted"

\* Session s is turned away with message m in this step: nothing is written,
\* the current item is dropped and a new run is requested.
TurnedAway(s, m) ==
  /\ labels' = labels
  /\ msg'[s] = m
  /\ current_row'[s] = None
  /\ pc'[s] = "rerun"

\* The run after session s was turned away with message m draws the next
\* item from the pool of the labels table as it is then (no item, and the
\* completion message, when that pool is empty).
RedrawsAfter(s, m) ==
  (pc[s] = "rerun" /\ msg[s] = m /\ pc'[s] # "rerun") =>
    IF TierA(user_id[s]) \cup TierB = {}
    THEN current_row'[s] = None /\ pc'[s] = "done"
    ELSE /\ current_row'[s] \in (IF TierA(user_id[s]) # {} THEN TierA(user_id[s]) ELSE TierB)
         /\ pc'[s] = "form"

\* C9: a submit whose re-read of the labels table finds 2 or more labels for
\* the item is rejected as AlreadyAtCapacity: no row is inserted, the current
\* item is discarded, and the next item is drawn from the pool recomputed
\* from the table as it is at the next run.
C9_AtCapacityIsRejected ==
  [][ \A s \in Sessions :
        /\ (Rechecks(s) /\ CountOf(current_row[s]) >= 2) =>
             TurnedAway(s, "AlreadyAtCapacity")
        /\ RedrawsAfter(s, "AlreadyAtCapacity") ]_vars

\* A session has just been turned away at capacity and has items left to draw.
C9_Witness ==
  \E s \in Sessions :
    /\ pc[s] = "rerun"
    /\ msg[s] = "AlreadyAtCapacity"
    /\ current_row[s] = None
    /\ labels # {}
    /\ TierA(user_id[s]) \cup TierB # {}

\* C10 as stated: a submit by an annotator who already has a label for the
\* item in the re-read table is rejected as DuplicateAnnotator.
C10_DuplicateIsRejectedAsDuplicate ==
  [][ \A s \in Sessions :
        /\ (Rechecks(s) /\ user_id[s] \in AnnotatorsOf(current_row[s])) =>
             TurnedAway(s, "DuplicateAnnotator")
        /\ RedrawsAfter(s, "DuplicateAnnotator") ]_vars

\* C10 as amended: such a submit is rejected, as DuplicateAnnotator when the
\* item has fewer than 2 labels and as AlreadyAtCapacity when it has 2 or
\* more (the capacity re-check comes first); either way no row is inserted,
\* the current item is discarded and the next one is drawn from the pool
\* recomputed at the next run.
C10_DuplicateIsRejected ==
  [][ \A s \in Sessions :
        /\ (Rechecks(s) /\ user_id[s] \in AnnotatorsOf(current_row[s])) =>
             TurnedAway(s, IF CountOf(current_row[s]) >= 2
                           THEN "AlreadyAtCapacity" ELSE "DuplicateAnnotator")
        /\ RedrawsAfter(s, "DuplicateAnnotator")
        /\ RedrawsAfter(s, "AlreadyAtCapacity") ]_vars

\* A session has just been turned away as a duplicate annotator: the item it
\* held is below 2 labels and carries a label of its annotator.
C10_Witness ==
  \E s \in Sessions :
    /\ pc[s] = "rerun"
    /\ msg[s] = "DuplicateAnnotator"
    /\ current_row[s] = None
    /\ \E uid \in summaries : CountOf(uid) = 1 /\ user_id[s] \in AnnotatorsOf(uid)

\* C11: in the runs of the annotators' sessions, once an item has 2 labels no pool contains
\* it, no session draws it as its current item and no submit for it is
\* accepted, whoever the annotator.
C11_FullItemIsNeverServedAgain ==
  [][ \A uid \in summaries :
        CountOf(uid) >= 2 =>
          /\ \A u \in Users : uid \notin PoolOf(u, labels)
          /\ \A s \in Sessions : current_row'[s] = uid => current_row[s] = uid
          /\ \A r \in labels' \ labels : r.unique_number # uid ]_vars

\* Session s reports a failed save in this step.
ReportsFailure(s) ==
  /\ pc[s] \in {"checked", "counted", "inserted"}
  /\ pc'[s] = "form"
  /\ msg'[s] = "Error"

\* C12: when the write of a submit fails, the submit has stored no row and
\* the step leaves the labels table as it is, the session keeps its current
\* item and stays on the form, where only a new press of submit starts
\* another insert.
C12_FailedWriteLeavesStoreAsItWas ==
  [][ \A s \in Sessions :
        ReportsFailure(s) =>
          /\ pc[s] # "inserted"
          /\ labels' = labels
          /\ current_row'[s] = current_row[s] ]_vars

\* The admin page deletes a row in this step.
DeleteStep == admin_msg' = "Deleted" /\ admin_msg # "Deleted"

\* The admin page reports a missing id in this step.
NotFoundStep ==
  /\ admin_msg' = "NotFound"
  /\ admin_msg # "NotFound" \/ id_to_delete' # id_to_delete

\* C13: a successful submit adds exactly one row, for the session's current
\* item and with the session's annotator id, and leaves the rows that were
\* there as they are; only the admin's delete removes a row, and no step
\* changes a row that stays.
C13_SubmitAddsExactlyItsRow ==
  [][ /\ \A s \in Sessions :
           Inserts(s) =>
             \E r \in labels' :
               /\ r \notin labels
               /\ labels' = labels \cup {r}
               /\ r.unique_number = current_row[s]
               /\ r.user_id = user_id[s]
      /\ (labels \ labels' # {}) => DeleteStep
      /\ \A r \in labels, q \in labels' : q.id = r.id => q = r ]_vars

\* C13 witness: a submit has just added the row of its session's current
\* item and annotator to a table that already had a row.
C13_Witness ==
  \E s \in Sessions :
    /\ pc[s] = "inserted"
    /\ \E r \in labels : r.unique_number = current_row[s] /\ r.user_id = user_id[s]
    /\ Cardinality(labels) >= 2

\* The session_state of session s.
SessionState(s) ==
  << password_correct[s], password[s], user_id[s], user_id_locked[s],
     current_row[s], pc[s], current_count[s], msg[s] >>

\* C15: the current item of a session changes only in a step of that
\* session (its user-id lock, a draw of one of its runs, its rejected or its
\* successful submit): in such a step no other session's state, no row of
\* the labels table and nothing of the admin page changes.
C15_CurrentItemChangedOnlyByOwnSession ==
  [][ \A s \in Sessions :
        current_row'[s] # current_row[s] =>
          /\ pc[s] \in {"user_id", "rerun", "form", "done", "submitted", "inserted"}
          /\ \A t \in Sessions \ {s} : SessionState(t)' = SessionState(t)
          /\ labels' = labels
          /\ UNCHANGED adminVars ]_vars

\* C15 witness: a session holds a current item while another session has
\* just inserted and the admin has just deleted a row.
C15_Witness ==
  \E s, t \in Sessions :
    /\ s # t
    /\ current_row[s] # None
    /\ pc[s] = "form"
    /\ pc[t] = "inserted"
    /\ admin_msg = "Deleted"

\* C16: a session whose annotator id is blank stands at one of the two gates
\* and has no current item (it computes no pool, draws nothing, inserts
\* nothing), and no row of the labels table has an empty annotator id.
C16_BlankAnnotatorDoesNothing ==
  /\ \A s \in Sessions :
       user_id[s] = "" => pc[s] \in {"password", "user_id"} /\ current_row[s] = None
  /\ \A r \in labels : r.user_id # ""

\* C16 witness: a session waits at the user id prompt with a blank id while
\* the others have labeled.
C16_Witness ==
  \E s \in Sessions :
    /\ pc[s] = "user_id"
    /\ user_id[s] = ""
    /\ labels # {}

\* The items whose normalized text is empty.
EmptyTextIds ==
  { row.unique_number : row \in { r \in drive_csv : compute_summary_text(r) = <<>> } }

\* C18: an item whose normalized text is empty is in no annotator's pool, is
\* no session's current item and is the item of no row of the labels table;
\* in the spreadsheet variant it is not among the filtered rows and no row of
\* the sheet carries the hash of the empty text.
C18_EmptyTextIsNeverServed ==
  /\ \A u \in Users : PoolOf(u, labels) \cap EmptyTextIds = {}
  /\ \A s \in Sessions : current_row[s] \notin EmptyTextIds
  /\ \A r \in labels : r.unique_number \notin EmptyTextIds
  /\ filtered_of(existing_hashes) \cap EmptyTextIds = {}
  /\ \A i \in 1..Len(sheet) : sheet[i].summary_hash # md5(<< >>)

\* C18 witness: there is an item with an empty text, every other item has
\* been labeled and a session still holds a current item.
C18_Witness ==
  /\ EmptyTextIds # {}
  /\ \A uid \in BillIds \ EmptyTextIds : CountOf(uid) >= 1
  /\ \E s \in Sessions : current_row[s] # None

\* C19: a delete with the id of a row removes that row and no other; a
\* delete with an id that no row has leaves the table as it is and reports
\* "not found"; no other step removes a row.
C19_DeleteRemovesExactlyThatRow ==
  [][ /\ DeleteStep =>
           /\ \E r \in labels : r.id = id_to_delete'
           /\ labels' = { r \in labels : r.id # id_to_delete' }
           /\ Cardinality(labels') = Cardinality(labels) - 1
      /\ NotFoundStep =>
           /\ \A r \in labels : r.id # id_to_delete'
           /\ labels' = labels
      /\ (\E r \in labels : r.id = id_to_delete') /\ id_to_delete' # id_to_delete
           => ~NotFoundStep
      /\ (labels \ labels' # {}) => DeleteStep ]_vars

\* C19 witness: the admin has deleted one of two rows and the other is
\* still there.
C19_Witness ==
  /\ admin_msg = "Deleted"
  /\ labels # {}
  /\ \A r \in labels : r.id # id_to_delete

\* C19 witness of the other case: "not found" is shown for an id while the
\* table has rows.
C19_NotFoundWitness ==
  /\ admin_msg = "NotFound"
  /\ labels # {}

\* C20: the item id of every row of the labels table is the unique_number
\* of a row of the bills table.
C20_LabelsReferToBills ==
  \A r \in labels : r.unique_number \in BillIds

\* C20 witness: rows were inserted and one of them deleted.
C20_Witness ==
  /\ Cardinality(labels) >= 2
  /\ id_to_delete # 0
  /\ admin_msg = ""
  /\ \A r \in labels : r.id # id_to_delete

\* C14: when at least two annotators' sessions keep drawing and submitting,
\* no store statement fails and the admin deletes nothing, eventually every
\* item has 2 labels and every session has stopped with the completion
\* message, for good.
C14_EveryItemGetsTwoLabels ==
  <>[](/\ \A uid \in summaries : CountOf(uid) >= 2
       /\ \A s \in Sessions : pc[s] = "done" /\ msg[s] = "PoolExhausted")

\* C14 witness: every item has its 2 labels, by both annotators, and every
\* session shows the completion message.
C14_Witness ==
  /\ \A uid \in summaries : CountOf(uid) = 2 /\ AnnotatorsOf(uid) = Users
  /\ \A s \in Sessions : pc[s] = "done" /\ msg[s] = "PoolExhausted"

\* Session s draws a row in this step.
Draws(s) == current_row'[s] # current_row[s] /\ current_row'[s] # None

\* C17: in the spreadsheet variant rows with the same normalized text have
\* the same hash, and a session draws no row whose hash is among the hashes
\* it sees for the sheet or is the hash of the row it has just submitted.
C17_SameTextIsOneTarget ==
  [][ /\ \A r1, r2 \in sheet_summaries :
           r1.summary_text = r2.summary_text => r1.summary_hash = r2.summary_hash
      /\ \A s \in Sessions :
           Draws(s) =>
             /\ HashOf(current_row'[s]) \notin existing_hashes'
             /\ pc[s] = "submitted" => HashOf(current_row'[s]) # HashOf(current_row[s]) ]_vars

\* C17 witness: a session has just submitted a row whose text another row
\* shares and has drawn a row with another hash.
C17_Witness ==
  \E s \in Sessions :
    /\ msg[s] = "Saved"
    /\ pc[s] = "form"
    /\ sheet # << >>
    /\ sheet[Len(sheet)].user_id = user_id[s]
    /\ Cardinality({ r \in sheet_summaries :
                       r.summary_hash = sheet[Len(sheet)].summary_hash }) >= 2
    /\ HashOf(current_row[s]) # sheet[Len(sheet)].summary_hash

\* The blank user id in the spreadsheet variant (C16 there): a run with a
\* blank id draws nothing and appends nothing, and no row of the sheet has an
\* empty user id.
BlankIdInSheetVariant ==
  [][ /\ \A s \in Sessions :
           (user_id'[s] = "" /\ SessionState(s)' # SessionState(s)) =>
             current_row'[s] = current_row[s] /\ UNCHANGED sheetVars
      /\ \A i \in 1..Len(sheet') : sheet'[i].user_id # "" ]_vars

\* C21: a session whose last password comparison did not succeed stands at
\* the password prompt: it has no user id, no current item and none of the
\* rows of the labels table is its work; every step in which a session
\* draws or inserts is a step of a session with password_correct true.
C21_NothingBehindTheGateWithoutPassword ==
  [][ \A s \in Sessions :
        /\ password_correct[s] # "true" =>
             /\ pc[s] = "password"
             /\ user_id[s] = "" /\ ~user_id_locked[s]
             /\ current_row[s] = None
        /\ (Draws(s) \/ Inserts(s) \/ pc'[s] \notin {"password", "user_id"}) =>
             password_correct[s] = "true" /\ password_correct'[s] = "true" ]_vars

\* C21 witness: a session stands at the prompt after a failed comparison
\* while another session has drawn and inserted.
C21_Witness ==
  \E s, t \in Sessions :
    /\ password_correct[s] = "false"
    /\ pc[t] = "inserted"
    /\ labels # {}

\* C22: after a password comparison, passed or failed, the session state
\* holds no typed secret, on the annotators' page and on the admin page.
C22_NoSecretKeptAfterComparison ==
  /\ \A s \in Sessions : password_correct[s] # "absent" => password[s] = ""
  /\ admin_password_correct # "absent" => admin_password = ""

\* Session s computes its pool in this step: a run of the script from the
\* top, or the re-selection after its insert.
PoolStep(s) ==
  /\ SessionState(s)' # SessionState(s)
  /\ pc[s] \in {"user_id", "rerun", "form", "done", "inserted"}
  /\ pc'[s] \notin {"password", "user_id"}
  /\ msg'[s] # "Error"

\* C23: a drawn item is in the pool of the session's annotator on the labels
\* table of that step; when a session computes an empty pool it draws
\* nothing, shows the completion message and stops, so that no submit is
\* handled in that step.
C23_DrawIsFromThePool ==
  [][ \A s \in Sessions :
        /\ Draws(s) =>
             /\ labels' = labels
             /\ current_row'[s] \in PoolOf(user_id'[s], labels)
        /\ (PoolStep(s) /\ PoolOf(user_id'[s], labels) = {}) =>
             /\ ~Draws(s)
             /\ pc'[s] = "done"
             /\ msg'[s] = "PoolExhausted" ]_vars

\* C23 witness: a session has found its pool empty and shows the completion
\* message while another session holds an item it has drawn.
C23_Witness ==
  \E s, t \in Sessions :
    /\ pc[s] = "done" /\ msg[s] = "PoolExhausted" /\ current_row[s] = None
    /\ pc[t] = "form" /\ current_row[t] # None
    /\ labels # {}

\* C24: in the spreadsheet variant no session draws a row whose hash is in a
\* row of the sheet, and no row is appended with a hash that a row of the
\* sheet already has.
C24_NoDuplicateWorkInTheSheet ==
  [][ /\ \A s \in Sessions :
           Draws(s) => HashOf(current_row'[s]) \notin load_existing_hashes(sheet')
      /\ Len(sheet') > Len(sheet) =>
           sheet'[Len(sheet')].summary_hash \notin load_existing_hashes(sheet) ]_vars

C26_RoundsOfAnItemAreDistinct ==
  \A r1, r2 \in labels :
    (r1.unique_number = r2.unique_number /\ r1 # r2) => r1.label_round # r2.label_round

\* C27: a locked annotator id stays locked and unchanged; a session that
\* holds a current item has a locked id, and each of its draws is from the
\* pool of that id; every row a session inserts carries that id.
C27_LockedIdNeverChanges ==
  [][ \A s \in Sessions :
        /\ user_id_locked[s] =>
             /\ user_id_locked'[s]
             /\ user_id'[s] = user_id[s]
             /\ user_id[s] # ""
        /\ current_row[s] # None => user_id_locked[s]
        /\ Draws(s) =>
             /\ user_id_locked'[s]
             /\ current_row'[s] \in PoolOf(user_id'[s], labels)
        /\ Inserts(s) =>
             /\ user_id_locked[s]
             /\ \A r \in labels' \ labels : r.user_id = user_id[s] ]_vars

\* C27 witness: a session with a locked id has inserted a row under that id
\* and holds the next item drawn for it.
C27_Witness ==
  \E s \in Sessions :
    /\ user_id_locked[s]
    /\ pc[s] = "form"
    /\ current_row[s] # None
    /\ \E r \in labels : r.user_id = user_id[s] /\ r.unique_number # current_row[s]

\* Session s takes its next item after a successful submit in this step.
Reselects(s) == pc[s] = "inserted" /\ pc'[s] = "rerun"

\* C28 as stated: the item a session takes right after its successful
\* submit is another item than the one just labeled and has no row by the
\* session's annotator in the labels table read after the insert.
C28_NextItemIsAnother ==
  [][ \A s \in Sessions :
        Reselects(s) =>
          /\ current_row'[s] # current_row[s]
          /\ user_id[s] \notin AnnotatorsOf(current_row'[s]) ]_vars

\* C28, amended: the item a session takes right after its successful submit
\* is in the pool of its annotator on the labels table read after the
\* insert and has no row by that annotator there; it is another item than
\* the one just labeled as long as the row just inserted is in that table.
C28_NextItemHasNoLabelByTheAnnotator ==
  [][ \A s \in Sessions :
        Reselects(s) =>
          /\ current_row'[s] \in PoolOf(user_id[s], labels)
          /\ user_id[s] \notin AnnotatorsOf(current_row'[s])
          /\ user_id[s] \in AnnotatorsOf(current_row[s])
               => current_row'[s] # current_row[s] ]_vars

\* C28 witness: a session has saved a label and taken as its next item
\* another item, one without a row of its annotator.
C28_Witness ==
  \E s \in Sessions :
    /\ pc[s] = "rerun"
    /\ msg[s] = "Saved"
    /\ current_row[s] # None
    /\ user_id[s] \notin AnnotatorsOf(current_row[s])
    /\ \E r \in labels : r.user_id = user_id[s] /\ r.unique_number # current_row[s]
====
